---- MODULE Spec2Model ----
(***************************************************************************)
(* Model of the ClawPage MCP adapter.                                      *)
(*                                                                         *)
(*   Spec         the Streamable-HTTP binding of src/src/index.ts          *)
(*                (startHttp): the session registry `transports`, the      *)
(*                POST / GET / DELETE routes and the SIGINT handler.       *)
(*   HandlerSpec  the five tool handlers of the handler module             *)
(*                (src/unnamed/part_000): one invocation at a time, the    *)
(*                injected fetch rejecting or resolving with a response.   *)
(*                                                                         *)
(* Every synchronous run of JavaScript between two awaits is one action:   *)
(* the event loop is single-threaded and does not preempt.                 *)
(***************************************************************************)
EXTENDS Integers, Sequences, FiniteSets, TLC

VARIABLES
    transports,   \* the registry object: own properties in insertion order
    trs,          \* every StreamableHTTPServerTransport created so far
    minted,       \* number of session identifiers minted by randomUUID
    pending,      \* per transport: requests suspended in transport.handleRequest
    sigPc,        \* SIGINT handler: "idle" | "await" | "crashed" | "done"
    sigKeys,      \* the handler's snapshot Object.keys(transports)
    sigI,         \* index in sigKeys of the session being closed
    exited,       \* process.exit has been called
    last,         \* the most recent HTTP request and how it was answered
    hPc,          \* tool handler: "idle" | "awaiting" | "returned" | "thrown"
    hOp,          \* which handler is running
    hParams,      \* its parameters
    outbound,     \* the outbound requests it has issued through fetchFn
    hFetch,       \* what fetchFn did: nothing yet, a rejection or a response
    hResult,      \* the Tool Result returned
    hThrown       \* the exception that escaped

httpVars == <<transports, trs, minted, pending, sigPc, sigKeys, sigI, exited, last>>
handlerVars == <<hPc, hOp, hParams, outbound, hFetch, hResult, hThrown>>
vars == <<transports, trs, minted, pending, sigPc, sigKeys, sigI, exited, last,
          hPc, hOp, hParams, outbound, hFetch, hResult, hThrown>>

(***************************************************************************)
(* Bounds of the model.                                                    *)
(***************************************************************************)
MaxSessions == 2
MaxPending == 1

(***************************************************************************)
(* Strings.                                                                *)
(***************************************************************************)
\* String.prototype.includes
Includes(s, sub) ==
    \E i \in 1..(Len(s) - Len(sub) + 1) : SubSeq(s, i, i + Len(sub) - 1) = sub

RECURSIVE Join(_, _)
\* Array.prototype.join on an array of strings
Join(lines, sep) ==
    IF Len(lines) = 0 THEN ""
    ELSE IF Len(lines) = 1 THEN lines[1]
    ELSE lines[1] \o sep \o Join(Tail(lines), sep)

(***************************************************************************)
(* The HTTP binding: src/src/index.ts, startHttp.                          *)
(***************************************************************************)
\* req.headers["mcp-session-id"]: undefined, or the string sent
NoHeader == [given |-> FALSE, value |-> ""]
Hdr(s) == [given |-> TRUE, value |-> s]

\* JavaScript truthiness of a string | undefined
TruthyHeader(h) == h.given /\ h.value # ""

\* Properties every object literal inherits from Object.prototype
InheritedProps == {"constructor"}

\* randomUUID(): the n-th identifier it returns
Uuid(n) == "uuid-" \o ToString(n)

\* sessionIdGenerator: () => randomUUID()
SessionIdGeneratorReusing == Uuid(1)
SessionIdGenerator == Uuid(minted + 1)

HeaderValues ==
    {NoHeader, Hdr(""), Hdr("constructor"), Hdr("no-such-session")}
        \cup {Hdr(Uuid(n)) : n \in 1..MaxSessions}

\* Object.keys(transports)
ObjectKeys(reg) == [i \in 1..Len(reg) |-> reg[i].sid]

HasOwn(reg, k) == \E i \in 1..Len(reg) : reg[i].sid = k

\* transports[k]: an own property, an inherited one, or undefined
Lookup(reg, k) ==
    IF HasOwn(reg, k)
    THEN [kind |-> "transport", t |-> reg[CHOOSE i \in 1..Len(reg) : reg[i].sid = k].t]
    ELSE IF k \in InheritedProps
    THEN [kind |-> "inherited", t |-> 0]
    ELSE [kind |-> "undefined", t |-> 0]

Truthy(found) == found.kind # "undefined"

\* transports[k] = t
Put(reg, k, t) ==
    IF HasOwn(reg, k)
    THEN [i \in 1..Len(reg) |-> IF reg[i].sid = k THEN [sid |-> k, t |-> t] ELSE reg[i]]
    ELSE Append(reg, [sid |-> k, t |-> t])

RECURSIVE Delete(_, _)
\* delete transports[k]
Delete(reg, k) ==
    IF Len(reg) = 0 THEN <<>>
    ELSE IF reg[1].sid = k THEN Delete(Tail(reg), k)
    ELSE <<reg[1]>> \o Delete(Tail(reg), k)

\* onsessioninitialized: (sid) => { transports[sid] = transport; }
OnSessionInitialized(reg, sid, t) == Put(reg, sid, t)

\* transport.onclose: remove the record of the transport's own session id
OnCloseKeeping(reg, sid) == reg
OnClose(reg, sid) ==
    IF sid # "" /\ Truthy(Lookup(reg, sid)) THEN Delete(reg, sid) ELSE reg

\* The state of the session a header value names, read off the connection
\* contexts themselves: "active", "closed" or "none".
SessionOf(h) ==
    IF ~h.given THEN "none"
    ELSE IF \E t \in 1..Len(trs) : trs[t].sessionId = h.value /\ h.value # "" /\ ~trs[t].closed
    THEN "active"
    ELSE IF \E t \in 1..Len(trs) : trs[t].sessionId = h.value /\ h.value # "" /\ trs[t].closed
    THEN "closed"
    ELSE "none"

NoRequest ==
    [method |-> "", hdr |-> NoHeader, init |-> FALSE, sess |-> "none",
     outcome |-> "none", status |-> 0, shape |-> "", target |-> 0, regChanged |-> FALSE]

Answer(method, h, init, outcome, status, shape, target, changed) ==
    [method |-> method, hdr |-> h, init |-> init, sess |-> SessionOf(h),
     outcome |-> outcome, status |-> status, shape |-> shape, target |-> target,
     regChanged |-> changed]

InitHttp ==
    /\ transports = <<>>
    /\ trs = <<>>
    /\ minted = 0
    /\ pending = <<>>
    /\ sigPc = "idle"
    /\ sigKeys = <<>>
    /\ sigI = 0
    /\ exited = FALSE
    /\ last = NoRequest

\* else if (!sessionId && isInitializeRequest(req.body))
IsNewSessionAnyHeader(h, init) == init
IsNewSession(h, init) == ~TruthyHeader(h) /\ init

\* app.post("/mcp"), up to its first await
Post(h, init) ==
    /\ ~exited
    /\ LET found == Lookup(transports, h.value) IN
       IF TruthyHeader(h) /\ Truthy(found)
       THEN IF found.kind = "transport"
            THEN \* await transport.handleRequest(req, res, req.body)
                 /\ pending[found.t] < MaxPending
                 /\ pending' = [pending EXCEPT ![found.t] = @ + 1]
                 /\ last' = Answer("POST", h, init, "routed", 0, "", found.t, FALSE)
                 /\ UNCHANGED <<transports, trs, minted>>
            ELSE \* an inherited property has no handleRequest: TypeError
                 /\ last' = Answer("POST", h, init, "fault", 0, "", 0, FALSE)
                 /\ UNCHANGED <<transports, trs, minted, pending>>
       ELSE IF IsNewSession(h, init)
       THEN \* new transport, onclose set, await server.connect(transport)
            /\ Len(trs) < MaxSessions
            /\ trs' = Append(trs, [sessionId |-> "", closed |-> FALSE, pc |-> "connect"])
            /\ pending' = Append(pending, 0)
            /\ last' = Answer("POST", h, init, "created", 0, "", Len(trs) + 1, FALSE)
            /\ UNCHANGED <<transports, minted>>
       ELSE \* res.status(400).json({jsonrpc: "2.0", error: ..., id: null})
            /\ last' = Answer("POST", h, init, "rejected", 400, "jsonrpc", 0, FALSE)
            /\ UNCHANGED <<transports, trs, minted, pending>>
    /\ UNCHANGED <<sigPc, sigKeys, sigI, exited>>
    /\ UNCHANGED handlerVars

\* app.post("/mcp") after server.connect: transport.handleRequest initializes the
\* session: the generator mints the identifier and onsessioninitialized records it
PostInitialize(t) ==
    /\ ~exited
    /\ t \in 1..Len(trs)
    /\ trs[t].pc = "connect"
    /\ LET sid == SessionIdGenerator IN
       /\ trs' = [trs EXCEPT ![t].sessionId = sid, ![t].pc = "ready"]
       /\ transports' = OnSessionInitialized(transports, sid, t)
    /\ minted' = minted + 1
    /\ UNCHANGED <<pending, sigPc, sigKeys, sigI, exited, last>>
    /\ UNCHANGED handlerVars

\* app.get("/mcp")
Get(h) ==
    /\ ~exited
    /\ LET found == Lookup(transports, h.value) IN
       IF ~TruthyHeader(h) \/ ~Truthy(found)
       THEN /\ last' = Answer("GET", h, FALSE, "rejected", 400, "text", 0, FALSE)
            /\ UNCHANGED pending
       ELSE IF found.kind = "transport"
       THEN /\ pending[found.t] < MaxPending
            /\ pending' = [pending EXCEPT ![found.t] = @ + 1]
            /\ last' = Answer("GET", h, FALSE, "routed", 0, "", found.t, FALSE)
       ELSE /\ last' = Answer("GET", h, FALSE, "fault", 0, "", 0, FALSE)
            /\ UNCHANGED pending
    /\ UNCHANGED <<transports, trs, minted, sigPc, sigKeys, sigI, exited>>
    /\ UNCHANGED handlerVars

\* transport.close(): the streams of the connection are ended and onclose runs
CloseTransport(reg, t) == OnClose(reg, trs[t].sessionId)

\* app.delete("/mcp"): the routed transport terminates the session and closes
DeleteReq(h) ==
    /\ ~exited
    /\ LET found == Lookup(transports, h.value) IN
       IF ~TruthyHeader(h) \/ ~Truthy(found)
       THEN /\ last' = Answer("DELETE", h, FALSE, "rejected", 400, "text", 0, FALSE)
            /\ UNCHANGED <<transports, trs, pending>>
       ELSE IF found.kind = "transport"
       THEN /\ transports' = CloseTransport(transports, found.t)
            /\ trs' = [trs EXCEPT ![found.t].closed = TRUE]
            /\ pending' = [pending EXCEPT ![found.t] = 0]
            /\ last' = Answer("DELETE", h, FALSE, "routed", 0, "", found.t,
                              transports' # transports)
       ELSE /\ last' = Answer("DELETE", h, FALSE, "fault", 0, "", 0, FALSE)
            /\ UNCHANGED <<transports, trs, pending>>
    /\ UNCHANGED <<minted, sigPc, sigKeys, sigI, exited>>
    /\ UNCHANGED handlerVars

\* a request suspended in transport.handleRequest completes
CompleteInArrivalOrder(t) ==
    /\ ~exited
    /\ t \in 1..Len(trs)
    /\ pending[t] > 0
    /\ \A u \in 1..(t - 1) : pending[u] = 0
    /\ pending' = [pending EXCEPT ![t] = @ - 1]
    /\ UNCHANGED <<transports, trs, minted, sigPc, sigKeys, sigI, exited, last>>
    /\ UNCHANGED handlerVars
Complete(t) ==
    /\ ~exited
    /\ t \in 1..Len(trs)
    /\ pending[t] > 0
    /\ pending' = [pending EXCEPT ![t] = @ - 1]
    /\ UNCHANGED <<transports, trs, minted, sigPc, sigKeys, sigI, exited, last>>
    /\ UNCHANGED handlerVars

\* the underlying connection of a session signals closure: onclose runs
ConnectionClosed(t) ==
    /\ ~exited
    /\ t \in 1..Len(trs)
    /\ trs[t].pc = "ready"
    /\ ~trs[t].closed
    /\ transports' = CloseTransport(transports, t)
    /\ trs' = [trs EXCEPT ![t].closed = TRUE]
    /\ pending' = [pending EXCEPT ![t] = 0]
    /\ UNCHANGED <<minted, sigPc, sigKeys, sigI, exited, last>>
    /\ UNCHANGED handlerVars

\* The SIGINT loop from the evaluation of transports[keys[i]].close() up to the
\* await, or up to process.exit(0) when the keys are used up.
SigintIterate(reg, keys, i) ==
    IF i > Len(keys)
    THEN /\ sigPc' = "done"
         /\ exited' = TRUE
         /\ transports' = reg
         /\ UNCHANGED <<trs, pending>>
    ELSE LET found == Lookup(reg, keys[i]) IN
         IF found.kind = "transport"
         THEN /\ transports' = CloseTransport(reg, found.t)
              /\ trs' = [trs EXCEPT ![found.t].closed = TRUE]
              /\ pending' = [pending EXCEPT ![found.t] = 0]
              /\ sigPc' = "await"
              /\ UNCHANGED exited
         ELSE \* transports[sid] is undefined: .close() throws a TypeError
              /\ sigPc' = "crashed"
              /\ transports' = reg
              /\ UNCHANGED <<trs, pending, exited>>

\* process.on("SIGINT"): snapshot the keys and run to the first await
Sigint ==
    /\ ~exited
    /\ sigPc = "idle"
    /\ sigKeys' = ObjectKeys(transports)
    /\ sigI' = 1
    /\ SigintIterate(transports, sigKeys', 1)
    /\ UNCHANGED <<minted, last>>
    /\ UNCHANGED handlerVars

\* the awaited close() has settled: delete transports[sid], then the next key
SigintResume ==
    /\ ~exited
    /\ sigPc = "await"
    /\ sigI' = sigI + 1
    /\ SigintIterate(Delete(transports, sigKeys[sigI]), sigKeys, sigI + 1)
    /\ UNCHANGED <<sigKeys, minted, last>>
    /\ UNCHANGED handlerVars

NextHttp ==
    \/ \E h \in HeaderValues, init \in BOOLEAN : Post(h, init)
    \/ \E t \in 1..MaxSessions : PostInitialize(t)
    \/ \E h \in HeaderValues : Get(h)
    \/ \E h \in HeaderValues : DeleteReq(h)
    \/ \E t \in 1..MaxSessions : Complete(t)
    \/ \E t \in 1..MaxSessions : ConnectionClosed(t)
    \/ Sigint
    \/ SigintResume

(***************************************************************************)
(* Properties of the HTTP binding.                                         *)
(***************************************************************************)
\* the last request carried no session identifier and an initialization body
SessionlessInit(r) == r.method = "POST" /\ ~TruthyHeader(r.hdr) /\ r.init

\* C2: every request whose session header is missing or does not name an
\* active session, and which is not a session-less initialization, is answered
\* 400 (JSON-RPC error for POST, plain text for GET and DELETE), is routed to
\* no connection context and leaves the registry unchanged.
C2_UnknownSessionRejected ==
    (last.method # "" /\ last.sess # "active" /\ ~SessionlessInit(last))
        => /\ last.outcome = "rejected"
           /\ last.status = 400
           /\ last.shape = (IF last.method = "POST" THEN "jsonrpc" ELSE "text")
           /\ last.target = 0
           /\ ~last.regChanged

\* a session is active: initialized and its connection not closed
Active(t) == trs[t].sessionId # "" /\ ~trs[t].closed

\* C3: when process.exit is called no session is still active with an
\* unclosed connection.
C3_ExitClosesEverySession ==
    exited => \A t \in 1..Len(trs) : ~Active(t)

\* C4 (state part): the request was answered by creating a session exactly
\* when it was a POST without identifier carrying an initialization body, and
\* a request naming an active session is routed to the context reporting it.
C4_Inv ==
    /\ (last.outcome = "created") <=> SessionlessInit(last)
    /\ last.outcome = "created" => last.target \in 1..Len(trs)
    /\ last.sess = "active" =>
          /\ last.outcome = "routed"
          /\ last.target \in 1..Len(trs)
          /\ trs[last.target].sessionId = last.hdr.value

\* C4 (step part): a connection context appears only in the step of such a
\* POST; an identifier is minted fresh, for a context created that way, and
\* is recorded in the registry under that identifier.
C4_Step ==
    /\ Len(trs') > Len(trs) =>
          /\ Len(trs') = Len(trs) + 1
          /\ SessionlessInit(last')
          /\ last'.outcome = "created"
          /\ last'.target = Len(trs')
          /\ trs'[Len(trs')].sessionId = ""
          /\ transports' = transports
    /\ minted' # minted =>
          \E t \in 1..Len(trs) :
              /\ trs[t].sessionId = ""
              /\ trs'[t].sessionId # ""
              /\ \A u \in 1..Len(trs) : trs[u].sessionId # trs'[t].sessionId
              /\ ~HasOwn(transports, trs'[t].sessionId)
              /\ Lookup(transports', trs'[t].sessionId) = [kind |-> "transport", t |-> t]
              /\ \A u \in 1..Len(trs) : u # t => trs'[u] = trs[u]
    /\ Len(transports') > Len(transports) => minted' # minted

\* C4: a POST creates a session iff it carries no session identifier and an
\* initialization body; the fresh identifier is recorded with the new
\* connection context and later requests carrying it reach that context.
C4_SessionCreatedOnlyBySessionlessInit == [][C4_Step /\ C4_Inv']_vars

C4_Witness ==
    last.method = "POST" /\ last.init /\ last.outcome = "routed" /\ last.sess = "active"

\* C5 (state part): a closed session has no record, and a request carrying
\* a closed session's identifier is rejected.
C5_Inv ==
    /\ \A t \in 1..Len(trs) : trs[t].closed =>
          /\ ~HasOwn(transports, trs[t].sessionId)
          /\ \A i \in 1..Len(transports) : transports[i].t # t
    /\ last.sess = "closed" => last.outcome = "rejected" /\ last.status = 400

\* C5 (step part): absent -> active -> closed, never backwards.
C5_Step ==
    \A t \in 1..Len(trs) :
        /\ trs[t].closed => trs'[t].closed
        /\ trs[t].sessionId # "" => trs'[t].sessionId = trs[t].sessionId
        /\ trs'[t].closed => trs[t].sessionId # ""

\* C5: closure removes the session's record, closed is terminal, and every
\* later request carrying the identifier is rejected.
C5_ClosedIsTerminal == [][C5_Step /\ C5_Inv']_vars

C5_Witness ==
    last.sess = "closed" /\ last.outcome = "rejected" /\ last.method = "GET"

\* C6: at most one record per identifier, every record under the identifier
\* its connection context reports, no context under two identifiers, and no
\* identifier held by two connection contexts.
C6_RegistryInvariant ==
    /\ \A i, j \in 1..Len(transports) :
          i # j => transports[i].sid # transports[j].sid /\ transports[i].t # transports[j].t
    /\ \A i \in 1..Len(transports) :
          /\ transports[i].t \in 1..Len(trs)
          /\ trs[transports[i].t].sessionId = transports[i].sid
    /\ \A t, u \in 1..Len(trs) :
          (t # u /\ trs[t].sessionId # "") => trs[t].sessionId # trs[u].sessionId

C6_Witness ==
    /\ Len(transports) = 2
    /\ transports[1].t = 2
    /\ transports[2].t = 1

(***************************************************************************)
(* JavaScript values, as the handlers see them.                            *)
(***************************************************************************)
Undefined == [t |-> "undefined", v |-> 0]
Null == [t |-> "null", v |-> 0]
Bool(b) == [t |-> "bool", v |-> b]
Num(n) == [t |-> "num", v |-> n]
Str(s) == [t |-> "str", v |-> s]
Arr(a) == [t |-> "arr", v |-> a]
\* an object: its own properties in insertion order
Obj(fields) == [t |-> "obj", v |-> fields]
Field(k, x) == [k |-> k, v |-> x]

\* ToBoolean
TruthyValue(x) ==
    CASE x.t \in {"undefined", "null"} -> FALSE
      [] x.t = "bool" -> x.v
      [] x.t = "num" -> x.v # 0
      [] x.t = "str" -> x.v # ""
      [] OTHER -> TRUE

HasField(x, k) == x.t = "obj" /\ \E i \in 1..Len(x.v) : x.v[i].k = k

\* x.k for x neither null nor undefined
Prop(x, k) ==
    IF HasField(x, k)
    THEN x.v[CHOOSE i \in 1..Len(x.v) : x.v[i].k = k].v
    ELSE Undefined

\* x.k throws a TypeError when x is null or undefined
Nullish(x) == x.t \in {"undefined", "null"}

RECURSIVE ToStr(_)
\* the string a template literal substitutes for x
ToStr(x) ==
    CASE x.t = "undefined" -> "undefined"
      [] x.t = "null" -> "null"
      [] x.t = "bool" -> IF x.v THEN "true" ELSE "false"
      [] x.t = "num" -> ToString(x.v)
      [] x.t = "str" -> x.v
      [] x.t = "arr" ->
            Join([i \in 1..Len(x.v) |-> IF Nullish(x.v[i]) THEN "" ELSE ToStr(x.v[i])], ",")
      [] OTHER -> "[object Object]"

RECURSIVE Spaces(_)
Spaces(n) == IF n <= 0 THEN "" ELSE " " \o Spaces(n - 1)

RECURSIVE Stringify(_, _, _)
\* JSON.stringify(x) (indent = 0) and JSON.stringify(x, null, indent)
Stringify(x, indent, level) ==
    LET nl == IF indent > 0 THEN "\n" \o Spaces(indent * (level + 1)) ELSE ""
        end == IF indent > 0 THEN "\n" \o Spaces(indent * level) ELSE ""
        colon == IF indent > 0 THEN ": " ELSE ":"
    IN
    CASE x.t \in {"null", "undefined"} -> "null"
      [] x.t = "bool" -> IF x.v THEN "true" ELSE "false"
      [] x.t = "num" -> ToString(x.v)
      [] x.t = "str" -> "\"" \o x.v \o "\""
      [] x.t = "arr" ->
            IF Len(x.v) = 0 THEN "[]"
            ELSE "[" \o nl
                 \o Join([i \in 1..Len(x.v) |-> Stringify(x.v[i], indent, level + 1)],
                         "," \o nl)
                 \o end \o "]"
      [] OTHER ->
            IF Len(x.v) = 0 THEN "{}"
            ELSE "{" \o nl
                 \o Join([i \in 1..Len(x.v) |->
                            "\"" \o x.v[i].k \o "\"" \o colon
                                \o Stringify(x.v[i].v, indent, level + 1)],
                         "," \o nl)
                 \o end \o "}"

JsonStringify(x) == Stringify(x, 0, 0)
JsonStringifyPretty(x) == Stringify(x, 2, 0)

UpperChars == "ABCDEFGHIJKLMNOPQRSTUVWXYZ"
LowerChars == "abcdefghijklmnopqrstuvwxyz"

LowerChar(c) ==
    IF \E i \in 1..Len(UpperChars) : SubSeq(UpperChars, i, i) = c
    THEN LET i == CHOOSE j \in 1..Len(UpperChars) : SubSeq(UpperChars, j, j) = c
         IN SubSeq(LowerChars, i, i)
    ELSE c

RECURSIVE Lower(_)
Lower(s) ==
    IF Len(s) = 0 THEN ""
    ELSE LowerChar(SubSeq(s, 1, 1)) \o Lower(SubSeq(s, 2, Len(s)))

\* Headers.get(name): case-insensitive, null when absent
HeadersGetCaseSensitive(headers, name) ==
    IF \E i \in 1..Len(headers) : headers[i].name = name
    THEN Str(headers[CHOOSE i \in 1..Len(headers) : headers[i].name = name].value)
    ELSE Null
HeadersGet(headers, name) ==
    IF \E i \in 1..Len(headers) : Lower(headers[i].name) = Lower(name)
    THEN Str(headers[CHOOSE i \in 1..Len(headers) : Lower(headers[i].name) = Lower(name)].value)
    ELSE Null

\* a || b
OrElse(a, b) == IF TruthyValue(a) THEN a ELSE b

(***************************************************************************)
(* The tool handlers: src/unnamed/part_000.                                *)
(***************************************************************************)
API_BASE == "https://api.clawpage.xyz"

\* ToolResult; isError absent is FALSE
Result(text) == [content |-> <<[type |-> "text", text |-> text]>>, isError |-> FALSE]
ErrorResult(text) == [content |-> <<[type |-> "text", text |-> text]>>, isError |-> TRUE]
NoResult == [content |-> <<>>, isError |-> FALSE]

Returns(r) == [threw |-> FALSE, error |-> "", result |-> r]
Throws(e) == [threw |-> TRUE, error |-> e, result |-> NoResult]

\* `${err}` for an Error object
ErrToString(err) ==
    IF err.message = "" THEN err.name ELSE err.name \o ": " \o err.message

\* the catch block around fetchFn, the same in the five handlers
ConnectFailureUnflagged(err) ==
    Result("Failed to connect to ClawPage API: " \o ErrToString(err))
ConnectFailure(err) ==
    ErrorResult("Failed to connect to ClawPage API: " \o ErrToString(err))

\* a response body: JSON text with the value it parses to, or other text
JsonBody(x) == [json |-> TRUE, val |-> x, raw |-> JsonStringify(x)]
TextBody(s) == [json |-> FALSE, val |-> Undefined, raw |-> s]

NoParams ==
    [email |-> Undefined, url |-> Undefined, api_key |-> Undefined, sync |-> Undefined,
     tx_hash |-> Undefined, wallet_address |-> Undefined]

Header(n, v) == [name |-> n, value |-> v]

\* the request handleRegister hands to fetchFn
RegisterRequest(params) ==
    [url |-> API_BASE \o "/register", method |-> "POST",
     headers |-> <<Header("Content-Type", "application/json")>>,
     body |-> JsonStringify(Obj(<<Field("email", params.email)>>))]

\* the request handleExtract hands to fetchFn
ExtractRequestKeyOnly(params) ==
    LET sync == IF params.sync.t = "undefined" THEN Bool(TRUE) ELSE params.sync IN
    [url |-> API_BASE \o "/extract", method |-> "POST",
     headers |-> <<Header("Content-Type", "application/json")>>
                 \o (IF TruthyValue(params.api_key)
                     THEN <<Header("X-API-Key", params.api_key.v)>> ELSE <<>>),
     body |-> JsonStringify(Obj(<<Field("url", params.url), Field("sync", sync)>>))]
ExtractRequest(params) ==
    LET sync == IF params.sync.t = "undefined" THEN Bool(TRUE) ELSE params.sync IN
    [url |-> API_BASE \o "/extract", method |-> "POST",
     headers |-> <<Header("Content-Type", "application/json")>>
                 \o (IF TruthyValue(params.api_key)
                     THEN <<Header("X-API-Key", params.api_key.v)>> ELSE <<>>)
                 \o (IF TruthyValue(params.tx_hash)
                     THEN <<Header("X-Payment-Proof", params.tx_hash.v)>> ELSE <<>>),
     body |-> JsonStringify(Obj(<<Field("url", params.url), Field("sync", sync)>>))]

\* the request handleAccount hands to fetchFn
AccountRequest(params) ==
    [url |-> API_BASE \o "/account", method |-> "GET",
     headers |-> <<Header("X-API-Key", params.api_key.v)>>,
     body |-> ""]

\* the request handleAddWallet hands to fetchFn
AddWalletRequest(params) ==
    [url |-> API_BASE \o "/account/wallets", method |-> "POST",
     headers |-> <<Header("Content-Type", "application/json"),
                   Header("X-API-Key", params.api_key.v)>>,
     body |-> JsonStringify(Obj(<<Field("wallet_address", params.wallet_address)>>))]

\* the request handleDeposit hands to fetchFn
DepositRequest(params) ==
    [url |-> API_BASE \o "/account/deposit", method |-> "POST",
     headers |-> <<Header("Content-Type", "application/json"),
                   Header("X-API-Key", params.api_key.v)>>,
     body |-> JsonStringify(Obj(<<Field("tx_hash", params.tx_hash)>>))]

\* handleRegister after the fetch resolved
HandleRegister(params, res) ==
    IF ~res.body.json THEN Throws("SyntaxError")
    ELSE IF res.status = 200 THEN Returns(Result(JsonStringifyPretty(res.body.val)))
    ELSE Returns(ErrorResult("Registration failed (" \o ToString(res.status) \o "): "
                             \o JsonStringify(res.body.val)))

\* body.error?.includes("exhausted"): "yes", "no", or "throws" when error is
\* neither nullish nor a value with an includes method
ErrorIncludesExhausted(body) ==
    LET e == Prop(body, "error") IN
    CASE Nullish(e) -> "no"
      [] e.t = "str" -> IF Includes(e.v, "exhausted") THEN "yes" ELSE "no"
      [] e.t = "arr" -> IF \E i \in 1..Len(e.v) : e.v[i] = Str("exhausted") THEN "yes" ELSE "no"
      [] OTHER -> "throws"

OptionsGuidance ==
    Join(<<"Authentication required. Two options:",
           "",
           "1. Register for free: use the 'register' tool with your email to get an API key with 10 free extractions/day",
           "2. Pay with x402: send 0.01 USDC on Base and retry with tx_hash">>, "\n")

ExhaustedGuidance ==
    Join(<<"Free tier exhausted and insufficient balance.",
           "",
           "Options:",
           "- Wait for daily recharge (10 free extractions per 24h rolling)",
           "- Deposit USDC: use 'add_wallet' then 'deposit' tools",
           "- Pay per request with x402 (no account needed)">>, "\n")

\* the generic payment-required text, from the response headers or the defaults
PaymentGuidance(headers) ==
    LET recipient == OrElse(HeadersGet(headers, "X-Payment-Recipient"),
                            Str("0x9FBF0f395b0610Bc15B17d84aB1f6CEF325420E9"))
        amount == OrElse(HeadersGet(headers, "X-Payment-Amount"), Str("0.01"))
        currency == OrElse(HeadersGet(headers, "X-Payment-Currency"), Str("USDC"))
        network == OrElse(HeadersGet(headers, "X-Payment-Network"), Str("base"))
    IN Join(<<"This URL is not cached and requires payment.",
              "",
              "Send " \o amount.v \o " " \o currency.v \o " on " \o network.v \o " to:",
              recipient.v,
              "",
              "Then call extract_url again with the same URL and tx_hash set to the transaction hash.">>,
            "\n")

\* handleExtract, the status 402 branch
HandleExtract402(res) ==
    IF ~res.body.json THEN Throws("SyntaxError")
    ELSE LET body == res.body.val IN
         IF Nullish(body) THEN Throws("TypeError")
         ELSE IF TruthyValue(Prop(body, "options")) THEN Returns(Result(OptionsGuidance))
         ELSE IF ErrorIncludesExhausted(body) = "throws" THEN Throws("TypeError")
         ELSE IF ErrorIncludesExhausted(body) = "yes" THEN Returns(Result(ExhaustedGuidance))
         ELSE Returns(Result(PaymentGuidance(res.headers)))

\* handleExtract, the status 202 branch
HandleExtract202(res) ==
    IF ~res.body.json THEN Throws("SyntaxError")
    ELSE LET data == res.body.val IN
         IF Nullish(data) THEN Throws("TypeError")
         ELSE Returns(Result(Join(
                <<"Extraction started (async mode).",
                  "Job ID: " \o ToStr(Prop(data, "job_id")),
                  "Poll for results: " \o API_BASE \o ToStr(Prop(data, "poll_url")),
                  "Estimated time: " \o ToStr(Prop(data, "estimated_seconds")) \o "s">>,
                "\n")))

\* handleExtract after the fetch resolved
HandleExtract(params, res) ==
    IF res.status = 200
    THEN IF ~res.body.json THEN Throws("SyntaxError")
         ELSE Returns(Result(JsonStringifyPretty(res.body.val)))
    ELSE IF res.status = 202 THEN HandleExtract202(res)
    ELSE IF res.status = 402 THEN HandleExtract402(res)
    ELSE IF res.status = 401
    THEN Returns(ErrorResult("Invalid API key. Use the 'register' tool to get a valid key."))
    ELSE Returns(ErrorResult("ClawPage API error (" \o ToString(res.status) \o "): "
                             \o res.body.raw))

\* handleAccount after the fetch resolved
HandleAccount(params, res) ==
    IF ~res.body.json THEN Throws("SyntaxError")
    ELSE IF res.status = 200 THEN Returns(Result(JsonStringifyPretty(res.body.val)))
    ELSE Returns(ErrorResult("Error (" \o ToString(res.status) \o "): "
                             \o JsonStringify(res.body.val)))

\* handleAddWallet after the fetch resolved
HandleAddWallet(params, res) ==
    IF ~res.body.json THEN Throws("SyntaxError")
    ELSE IF res.status = 200
    THEN Returns(Result("Wallet " \o ToStr(params.wallet_address) \o " associated successfully."))
    ELSE Returns(ErrorResult("Error (" \o ToString(res.status) \o "): "
                             \o JsonStringify(res.body.val)))

\* handleDeposit after the fetch resolved
HandleDeposit(params, res) ==
    IF ~res.body.json THEN Throws("SyntaxError")
    ELSE IF res.status = 200 THEN Returns(Result(JsonStringifyPretty(res.body.val)))
    ELSE Returns(ErrorResult("Deposit failed (" \o ToString(res.status) \o "): "
                             \o JsonStringify(res.body.val)))

Ops == {"register", "extract_url", "account_info", "add_wallet", "deposit"}

RequestOf(op, params) ==
    CASE op = "register" -> RegisterRequest(params)
      [] op = "extract_url" -> ExtractRequest(params)
      [] op = "account_info" -> AccountRequest(params)
      [] op = "add_wallet" -> AddWalletRequest(params)
      [] OTHER -> DepositRequest(params)

Classify(op, params, res) ==
    CASE op = "register" -> HandleRegister(params, res)
      [] op = "extract_url" -> HandleExtract(params, res)
      [] op = "account_info" -> HandleAccount(params, res)
      [] op = "add_wallet" -> HandleAddWallet(params, res)
      [] OTHER -> HandleDeposit(params, res)

(***************************************************************************)
(* The inputs of a handler invocation.                                     *)
(***************************************************************************)
OptionalStrings(given) == {Undefined, Str("")} \cup {Str(x) : x \in given}

ParamsOf(op) ==
    CASE op = "register" ->
            {[NoParams EXCEPT !.email = Str(e)] : e \in {"a@example.com"}}
      [] op = "extract_url" ->
            {[NoParams EXCEPT !.url = Str("https://example.com"), !.api_key = k,
                              !.sync = s, !.tx_hash = x] :
                k \in OptionalStrings({"cpk_test123"}),
                s \in {Undefined, Bool(TRUE), Bool(FALSE)},
                x \in OptionalStrings({"0xabc123"})}
      [] op = "account_info" ->
            {[NoParams EXCEPT !.api_key = Str(k)] : k \in {"cpk_test123", ""}}
      [] op = "add_wallet" ->
            {[NoParams EXCEPT !.api_key = Str("cpk_test123"), !.wallet_address = Str(w)] :
                w \in {"0x1234", ""}}
      [] OTHER ->
            {[NoParams EXCEPT !.api_key = Str("cpk_test123"), !.tx_hash = Str(x)] :
                x \in {"0xabc123", ""}}

\* what fetchFn can reject with
Rejections ==
    {[name |-> "Error", message |-> "Connection refused"],
     [name |-> "TypeError", message |-> "fetch failed"]}

Statuses == {200, 201, 202, 204, 400, 401, 402, 409, 500}

Bodies ==
    {TextBody("Internal Server Error"), TextBody(""),
     JsonBody(Null), JsonBody(Str("exhausted")), JsonBody(Obj(<<>>)),
     JsonBody(Obj(<<Field("options", Arr(<<Str("register"), Str("x402")>>))>>)),
     JsonBody(Obj(<<Field("options", Arr(<<>>)), Field("error", Str("Free tier exhausted"))>>)),
     JsonBody(Obj(<<Field("options", Null), Field("error", Str("Payment required"))>>)),
     JsonBody(Obj(<<Field("error", Str("Free tier exhausted"))>>)),
     JsonBody(Obj(<<Field("error", Str("Payment required"))>>)),
     JsonBody(Obj(<<Field("error", Null)>>)),
     JsonBody(Obj(<<Field("error", Obj(<<Field("message", Str("Payment required"))>>))>>)),
     JsonBody(Obj(<<Field("job_id", Str("abc-123")), Field("poll_url", Str("/jobs/abc-123")),
                    Field("estimated_seconds", Num(15))>>)),
     JsonBody(Obj(<<Field("api_key", Str("cpk_test123")), Field("free_extractions", Num(10))>>))}

HeaderSets ==
    {<<>>,
     <<Header("X-Payment-Recipient", "0xABCD"), Header("X-Payment-Amount", "0.05"),
       Header("X-Payment-Currency", "DAI"), Header("X-Payment-Network", "optimism")>>,
     <<Header("x-payment-amount", "0.02")>>,
     <<Header("X-Payment-Recipient", "0xABCD"), Header("X-Payment-Amount", "")>>}

Responses == [status : Statuses, headers : HeaderSets, body : Bodies]

NoFetch ==
    [kind |-> "none", err |-> [name |-> "", message |-> ""],
     res |-> [status |-> 0, headers |-> <<>>, body |-> TextBody("")]]

InitHandlerIdle ==
    /\ hPc = "idle"
    /\ hOp = ""
    /\ hParams = NoParams
    /\ outbound = <<>>
    /\ hFetch = NoFetch
    /\ hResult = NoResult
    /\ hThrown = ""

\* a tool invocation reaches its handler, which calls fetchFn once and awaits
Invoke(op, params) ==
    /\ hPc = "idle"
    /\ hOp' = op
    /\ hParams' = params
    /\ outbound' = <<RequestOf(op, params)>>
    /\ hPc' = "awaiting"
    /\ hFetch' = NoFetch
    /\ hResult' = NoResult
    /\ hThrown' = ""
    /\ UNCHANGED httpVars

\* fetchFn throws or rejects: the catch block returns
FetchRejectsRetrying(err) ==
    /\ hPc = "awaiting"
    /\ hFetch' = [NoFetch EXCEPT !.kind = "reject", !.err = err]
    /\ outbound' = Append(outbound, outbound[1])
    /\ hResult' = ConnectFailure(err)
    /\ hPc' = "returned"
    /\ UNCHANGED <<hOp, hParams, hThrown>>
    /\ UNCHANGED httpVars
FetchRejects(err) ==
    /\ hPc = "awaiting"
    /\ hFetch' = [NoFetch EXCEPT !.kind = "reject", !.err = err]
    /\ hResult' = ConnectFailure(err)
    /\ hPc' = "returned"
    /\ UNCHANGED <<hOp, hParams, outbound, hThrown>>
    /\ UNCHANGED httpVars

\* fetchFn resolves with a response: the handler classifies it
FetchResolves(res) ==
    /\ hPc = "awaiting"
    /\ hFetch' = [NoFetch EXCEPT !.kind = "response", !.res = res]
    /\ LET out == Classify(hOp, hParams, res) IN
       /\ hPc' = IF out.threw THEN "thrown" ELSE "returned"
       /\ hResult' = out.result
       /\ hThrown' = out.error
    /\ UNCHANGED <<hOp, hParams, outbound>>
    /\ UNCHANGED httpVars

\* the invocation is over and its result handed on; the next one may start
Finish ==
    /\ hPc \in {"returned", "thrown"}
    /\ hPc' = "idle"
    /\ hOp' = ""
    /\ hParams' = NoParams
    /\ outbound' = <<>>
    /\ hFetch' = NoFetch
    /\ hResult' = NoResult
    /\ hThrown' = ""
    /\ UNCHANGED httpVars

NextHandler ==
    \/ \E op \in Ops : \E params \in ParamsOf(op) : Invoke(op, params)
    \/ \E err \in Rejections : FetchRejects(err)
    \/ \E res \in Responses : FetchResolves(res)
    \/ Finish

Init == InitHttp /\ InitHandlerIdle

HandlerSpec == Init /\ [][NextHandler]_vars

(***************************************************************************)
(* Properties of the tool handlers.                                        *)
(***************************************************************************)
Responded == hFetch.kind = "response"
Rejected == hFetch.kind = "reject"
ResultText == hResult.content[1].text

\* C1: whatever the injected call does, the handler completes by returning a
\* Tool Result; no exception escapes.
C1_NoExceptionEscapes ==
    hFetch.kind # "none" => hPc = "returned"

Is2xx(status) == status >= 200 /\ status <= 299

\* the failures the error flag stands for: a network failure, or a status that
\* is neither 2xx nor the 402 of extract_url
IsFailure ==
    \/ Rejected
    \/ /\ Responded
       /\ ~Is2xx(hFetch.res.status)
       /\ ~(hOp = "extract_url" /\ hFetch.res.status = 402)

\* C7: every Tool Result has exactly one content block and its error flag is
\* set iff the outcome is a failure; every 2xx response and every extract_url
\* 402 response yields a result without the flag.
C7_ErrorFlagIffFailure ==
    hPc = "returned" =>
        /\ Len(hResult.content) = 1
        /\ hResult.isError <=> IsFailure

\* C8: when the injected call throws or rejects, the handler returns an
\* error-flagged result whose single text block contains "Failed to connect"
\* and the description of the failure.
C8_ConnectFailureReported ==
    Rejected =>
        /\ hPc = "returned"
        /\ hResult.isError
        /\ Len(hResult.content) = 1
        /\ hResult.content[1].type = "text"
        /\ Includes(ResultText, "Failed to connect")
        /\ Includes(ResultText, hFetch.err.name)
        /\ Includes(ResultText, hFetch.err.message)

C8_Witness ==
    /\ Rejected
    /\ hPc = "returned"
    /\ hOp = "deposit"
    /\ hFetch.err.message = "Connection refused"

Extract402 ==
    /\ Responded
    /\ hOp = "extract_url"
    /\ hFetch.res.status = 402
    /\ hFetch.res.body.json
    /\ hFetch.res.body.val.t = "obj"

\* C9: extract_url, status 402, body carrying an `options` field: the
\* non-error two-option guidance, whatever the headers, the value of
\* `options` and the other fields are.
C9_OptionsTakePrecedence ==
    (Extract402 /\ HasField(hFetch.res.body.val, "options")) =>
        /\ hPc = "returned"
        /\ ~hResult.isError
        /\ Includes(ResultText, "register")
        /\ Includes(ResultText, "x402")

\* C10: extract_url, status 402, body without `options`: an `error` string
\* containing "exhausted" gives the exhausted guidance; an `error` that is
\* absent or of any other form gives the generic payment guidance, and no
\* exception is thrown.
C10_ExhaustedCheckIsSafe ==
    (Extract402 /\ ~HasField(hFetch.res.body.val, "options")) =>
        LET e == Prop(hFetch.res.body.val, "error") IN
        /\ hPc = "returned"
        /\ ~hResult.isError
        /\ IF e.t = "str" /\ Includes(e.v, "exhausted")
           THEN /\ Includes(ResultText, "Free tier exhausted")
                /\ Includes(ResultText, "Deposit USDC")
           ELSE Includes(ResultText, "requires payment")

\* extract_url reached the generic payment-required branch: status 402, a
\* JSON body that is neither null nor carries truthy options, and an error
\* that is absent, null or a string without "exhausted"
GenericPayment ==
    /\ Responded
    /\ hOp = "extract_url"
    /\ hFetch.res.status = 402
    /\ hFetch.res.body.json
    /\ ~Nullish(hFetch.res.body.val)
    /\ ~TruthyValue(Prop(hFetch.res.body.val, "options"))
    /\ LET e == Prop(hFetch.res.body.val, "error") IN
       Nullish(e) \/ (e.t = "str" /\ ~Includes(e.v, "exhausted"))

HeaderPresent(name) ==
    \E i \in 1..Len(hFetch.res.headers) : Lower(hFetch.res.headers[i].name) = Lower(name)

HeaderSent(name) ==
    hFetch.res.headers[CHOOSE i \in 1..Len(hFetch.res.headers) :
                           Lower(hFetch.res.headers[i].name) = Lower(name)].value

\* the payment text for the four values
PaymentTextNames(recipient, amount, currency, network) ==
    /\ hPc = "returned"
    /\ ~hResult.isError
    /\ Len(hResult.content) = 1
    /\ Includes(ResultText, "Send " \o amount \o " " \o currency \o " on " \o network \o " to:\n"
                            \o recipient \o "\n")

\* the value the claim assigns: the header when present, else the default
PresentOr(name, default) == IF HeaderPresent(name) THEN HeaderSent(name) ELSE default

\* the value the code assigns: the header when present and not empty
NonEmptyOr(name, default) ==
    IF HeaderPresent(name) /\ HeaderSent(name) # "" THEN HeaderSent(name) ELSE default

\* C11 as stated: in the generic payment branch each of recipient, amount,
\* currency and network is its header's value when the header is present and
\* the default exactly when the header is absent.
C11_DefaultExactlyWhenAbsent ==
    GenericPayment =>
        PaymentTextNames(PresentOr("X-Payment-Recipient", "0x9FBF0f395b0610Bc15B17d84aB1f6CEF325420E9"),
                         PresentOr("X-Payment-Amount", "0.01"),
                         PresentOr("X-Payment-Currency", "USDC"),
                         PresentOr("X-Payment-Network", "base"))

\* C11 as amended: each value is its header's value when the header is
\* present with a non-empty value, and the default exactly when the header is
\* absent or empty; the text names "<amount> <currency> on <network>" and
\* the recipient.
C11_DefaultWhenAbsentOrEmpty ==
    GenericPayment =>
        PaymentTextNames(NonEmptyOr("X-Payment-Recipient", "0x9FBF0f395b0610Bc15B17d84aB1f6CEF325420E9"),
                         NonEmptyOr("X-Payment-Amount", "0.01"),
                         NonEmptyOr("X-Payment-Currency", "USDC"),
                         NonEmptyOr("X-Payment-Network", "base"))

C11_Witness ==
    /\ GenericPayment
    /\ hPc = "returned"
    /\ hFetch.res.headers = <<Header("x-payment-amount", "0.02")>>
    /\ Includes(ResultText, "Send 0.02 USDC on base to:")

\* the outbound request carries header `name`
Carries(req, name) == \E i \in 1..Len(req.headers) : req.headers[i].name = name
Carried(req, name) ==
    req.headers[CHOOSE i \in 1..Len(req.headers) : req.headers[i].name = name].value

ExtractCalled == hOp = "extract_url" /\ hPc # "idle" /\ Len(outbound) >= 1

\* the body {url, sync} with sync defaulting to true
ExtractBodySent ==
    /\ outbound[1].url = "https://api.clawpage.xyz/extract"
    /\ outbound[1].method = "POST"
    /\ outbound[1].body =
          "{\"url\":\"" \o hParams.url.v \o "\",\"sync\":"
              \o (IF hParams.sync = Bool(FALSE) THEN "false" ELSE "true") \o "}"

\* C12 as stated: X-Payment-Proof is attached iff tx_hash was given, X-API-Key
\* iff api_key was given, each equal to the value given, for every string.
C12_HeaderIffGiven ==
    ExtractCalled =>
        /\ Carries(outbound[1], "X-Payment-Proof") <=> hParams.tx_hash.t = "str"
        /\ Carries(outbound[1], "X-API-Key") <=> hParams.api_key.t = "str"
        /\ Carries(outbound[1], "X-Payment-Proof") =>
              Carried(outbound[1], "X-Payment-Proof") = hParams.tx_hash.v
        /\ Carries(outbound[1], "X-API-Key") =>
              Carried(outbound[1], "X-API-Key") = hParams.api_key.v
        /\ ExtractBodySent

\* C12 as amended: X-Payment-Proof is attached iff tx_hash was given and is
\* not the empty string, X-API-Key iff api_key was given and is not the empty
\* string, each equal to the value given; the body is {url, sync} with sync
\* defaulting to true.
C12_HeaderIffGivenNonEmpty ==
    ExtractCalled =>
        /\ Carries(outbound[1], "X-Payment-Proof") <=>
              (hParams.tx_hash.t = "str" /\ hParams.tx_hash.v # "")
        /\ Carries(outbound[1], "X-API-Key") <=>
              (hParams.api_key.t = "str" /\ hParams.api_key.v # "")
        /\ Carries(outbound[1], "X-Payment-Proof") =>
              Carried(outbound[1], "X-Payment-Proof") = hParams.tx_hash.v
        /\ Carries(outbound[1], "X-API-Key") =>
              Carried(outbound[1], "X-API-Key") = hParams.api_key.v
        /\ ExtractBodySent

C12_Witness ==
    /\ ExtractCalled
    /\ hParams.tx_hash = Str("0xabc123")
    /\ hParams.api_key = Undefined
    /\ hParams.sync = Undefined
    /\ Carries(outbound[1], "X-Payment-Proof")
    /\ ~Carries(outbound[1], "X-API-Key")

\* C13: every handler invocation issues exactly one outbound request, whether
\* the call rejects, or resolves with any status, or the handler throws.
C13_SingleAttempt ==
    hPc # "idle" =>
        /\ Len(outbound) = 1
        /\ Includes(outbound[1].url, "https://api.clawpage.xyz/")

C13_Witness ==
    /\ hPc = "returned"
    /\ Rejected
    /\ hOp = "extract_url"
    /\ Len(outbound) = 1

StartsWith(s, prefix) == Len(s) >= Len(prefix) /\ SubSeq(s, 1, Len(prefix)) = prefix

\* the prefix of each non-extract operation's error text
ErrorPrefix(op) ==
    CASE op = "register" -> "Registration failed"
      [] op = "deposit" -> "Deposit failed"
      [] OTHER -> "Error"

\* C14: for register, account_info, add_wallet and deposit, every response
\* whose status is not 200 yields an error-flagged result whose text begins
\* with the operation's prefix and embeds the status code and the body.
C14_NonExtractErrorEmbedsStatus ==
    (Responded /\ hOp # "extract_url" /\ hFetch.res.status # 200) =>
        /\ hPc = "returned"
        /\ hResult.isError
        /\ Len(hResult.content) = 1
        /\ StartsWith(ResultText, ErrorPrefix(hOp))
        /\ Includes(ResultText, "(" \o ToString(hFetch.res.status) \o ")")
        /\ Includes(ResultText, hFetch.res.body.raw)

\* character i of s lies inside a string literal
InLiteral(s, i) ==
    Cardinality({j \in 1..(i - 1) : SubSeq(s, j, j) = "\""}) % 2 = 1

RECURSIVE MinifyRange(_, _, _)
MinifyRange(s, lo, hi) ==
    IF lo > hi THEN ""
    ELSE IF lo = hi
    THEN IF SubSeq(s, lo, lo) \in {" ", "\n"} /\ ~InLiteral(s, lo) THEN "" ELSE SubSeq(s, lo, lo)
    ELSE LET mid == (lo + hi) \div 2
         IN MinifyRange(s, lo, mid) \o MinifyRange(s, mid + 1, hi)

\* JSON text without its insignificant whitespace (outside string literals):
\* what a parser reads of it
Minify(s) == MinifyRange(s, 1, Len(s))

\* C15: for status 200, register, extract_url, account_info and deposit
\* return a non-error result whose text is the JSON payload pretty-printed
\* (read back, it is the payload); add_wallet returns a non-error fixed
\* sentence naming the caller's wallet address, whatever the payload is.
C15_SuccessPassthrough ==
    (Responded /\ hFetch.res.status = 200) =>
        IF hOp = "add_wallet"
        THEN /\ hPc = "returned"
             /\ ~hResult.isError
             /\ Len(hResult.content) = 1
             /\ ResultText = "Wallet " \o hParams.wallet_address.v \o " associated successfully."
        ELSE hFetch.res.body.json =>
             /\ hPc = "returned"
             /\ ~hResult.isError
             /\ Len(hResult.content) = 1
             /\ Minify(ResultText) = hFetch.res.body.raw

\* C16: sessions are independent. Whatever is pending on other sessions, a
\* request carrying an active session's identifier can be routed, a request
\* suspended on a session can complete, and an initialization request can
\* create a session.
C16_SessionsIndependent ==
    ~exited =>
        /\ \A u \in 1..Len(trs) : Active(u) =>
              /\ pending[u] < MaxPending => ENABLED Post(Hdr(trs[u].sessionId), FALSE)
              /\ pending[u] < MaxPending => ENABLED Get(Hdr(trs[u].sessionId))
              /\ pending[u] > 0 => ENABLED Complete(u)
        /\ Len(trs) < MaxSessions => ENABLED Post(NoHeader, TRUE)

\* a request of session 1 is still pending while one of session 2, arrived
\* after it, was routed and has completed
C16_Witness ==
    /\ Len(trs) = 2
    /\ Active(1)
    /\ Active(2)
    /\ pending[1] > 0
    /\ pending[2] = 0
    /\ last.outcome = "routed"
    /\ last.target = 2

\* C17: the shutdown handler never dereferences a record that another event
\* removed while it was awaiting a close; it goes on to close the remaining
\* sessions and exit.
C17_ShutdownNeverFaults ==
    sigPc # "crashed"

Next == NextHttp

Spec == Init /\ [][Next]_vars

====
